---------------------------- MODULE Spec2Model ----------------------------
(***************************************************************************)
(* Model of localization/launch_world/sim.launch.py: the random block      *)
(* placement generator, the colour balancer, the per-block model pipeline  *)
(* (xacro -> gz sdf -> plugin injection) and the launch plan handed to the *)
(* launch runtime.                                                         *)
(*                                                                         *)
(* Lengths are integers in units of 0.01 m (0.15 m = 15).  A yaw angle is  *)
(* an integer in units of 2*pi/YawRes, so 2*pi is YawRes.                  *)
(***************************************************************************)
EXTENDS Integers, Sequences, FiniteSets, TLC

(***************************************************************************)
(* Bounds of the model.                                                    *)
(***************************************************************************)
\* generate_balanced_colors is applied to every N in 0..MaxN
MaxN == 6
\* converter outputs of up to MaxLines lines are injected
MaxLines == 3
\* random.random() is drawn from {0/YawRes, ..., (YawRes-1)/YawRes}
YawRes == 3

(***************************************************************************)
(* Program constants.                                                      *)
(***************************************************************************)
\* check_collision(..., min_distance: float = 0.15)
MinDistance == 15
\* base_x, base_y = 0.1, 0.45
BaseX == 10
BaseY == 45
\* random.uniform(-0.1, 0.1), random.uniform(-0.25, 0.25)
JitterX == 10
JitterY == 25
\* random.randint(4, 5)
MinBlocks == 4
MaxBlocks == 5
\* "z": "0.88"
TableZ == "0.88"

block_types ==
  << "X1-Y1-Z2", "X1-Y2-Z2", "X1-Y4-Z2", "X1-Y2-Z1", "X1-Y3-Z2-FILLET",
     "X1-Y2-Z2-CHAMFER", "X1-Y3-Z2", "X1-Y2-Z2-TWINFILLET", "X1-Y4-Z1" >>

palette ==
  << "1.0 1.0 0.0 1", "0.0 1.0 0.0 1", "1.0 0.0 0.0 1", "1.0 0.5 0.0 1" >>

(***************************************************************************)
(* Python helpers.                                                         *)
(***************************************************************************)
Range(s) == { s[k] : k \in DOMAIN s }

Count(s, c) == Cardinality({ k \in DOMAIN s : s[k] = c })

Injective(f) == \A a, b \in DOMAIN f : f[a] = f[b] => a = b

\* str(v) of a number, and float(s) of such a string
Str(v) == [repr |-> v]
Float(s) == s.repr

\* list * n
RECURSIVE Repeat(_, _)
Repeat(s, n) == IF n <= 0 THEN << >> ELSE s \o Repeat(s, n - 1)

\* random.sample(population, k): k positions drawn with replacement
RandomSampleRepl(population, k) ==
  { [j \in 1..k |-> population[p[j]]] : p \in [1..k -> DOMAIN population] }

\* random.sample(population, k): k distinct positions of the population, in
\* any order
RandomSample(population, k) ==
  { [j \in 1..k |-> population[p[j]]] :
      p \in { q \in [1..k -> DOMAIN population] : Injective(q) } }

\* s without its k-th element
Without(s, k) == SubSeq(s, 1, k - 1) \o SubSeq(s, k + 1, Len(s))

\* random.shuffle(s): every order of the elements of s
RECURSIVE Shuffle(_)
Shuffle(s) ==
  IF s = << >> THEN { << >> }
  ELSE UNION { { << s[k] >> \o t : t \in Shuffle(Without(s, k)) } : k \in DOMAIN s }

\* list.insert(index, x), with Python's clamping of the index
ListInsert(s, index, x) ==
  LET n == Len(s)
      k0 == IF index < 0 THEN index + n ELSE index
      k == IF k0 < 0 THEN 0 ELSE IF k0 > n THEN n ELSE k0
  IN  SubSeq(s, 1, k) \o << x >> \o SubSeq(s, k + 1, n)

(***************************************************************************)
(* generate_random_rotation, check_collision, generate_balanced_colors.    *)
(***************************************************************************)
\* random.uniform(a, b) = a + (b - a) * random(), random() = r / YawRes
TwoPi == YawRes

UniformYawClosed(r) == 0 + ((TwoPi - 0) * (r + 1)) \div YawRes

UniformYaw(r) == 0 + ((TwoPi - 0) * r) \div YawRes

generate_random_rotation(r) == << 0, 0, UniformYaw(r) >>

\* planar distance test; distance < min_distance iff dx^2+dy^2 < min_distance^2
TooCloseX(new_pos, pos, min_distance) ==
  LET dx == Float(new_pos.x) - Float(pos.x)
  IN  dx * dx < min_distance * min_distance

TooClose(new_pos, pos, min_distance) ==
  LET dx == Float(new_pos.x) - Float(pos.x)
      dy == Float(new_pos.y) - Float(pos.y)
  IN  dx * dx + dy * dy < min_distance * min_distance

\* only the placement accepted last is compared
check_collision_last(new_pos, existing) ==
  existing # << >> /\ TooClose(new_pos, existing[Len(existing)], MinDistance)

check_collision(new_pos, existing) ==
  \E k \in DOMAIN existing : TooClose(new_pos, existing[k], MinDistance)

BalancedColorsRepl(n) ==
  LET base_count == n \div Len(palette)
      remainder == n % Len(palette)
      result == Repeat(palette, base_count)
  IN  UNION { Shuffle(result \o ext) : ext \in RandomSampleRepl(palette, remainder) }

generate_balanced_colors(n) ==
  LET base_count == n \div Len(palette)
      remainder == n % Len(palette)
      result == Repeat(palette, base_count)
  IN  IF remainder # 0
        THEN UNION { Shuffle(result \o ext) : ext \in RandomSample(palette, remainder) }
        ELSE Shuffle(result)

(***************************************************************************)
(* The external tools and the files of <package>/models.                   *)
(***************************************************************************)
\* f'block{number}.urdf', f'block{number}.sdf'
\* every block writes block1.urdf, block1.sdf
SharedFileName(number, ext) == << "block", Str(1), ext >>

FileName(number, ext) == << "block", number, ext >>

FileNames == { FileName(Str(n), ext) : n \in 1..MaxBlocks, ext \in {"urdf", "sdf"} }

Absent == [state |-> "absent", data |-> << >>]
Stale == [state |-> "stale", data |-> << >>]
Written(data) == [state |-> "written", data |-> data]

\* the xacro command line of a block, and what xacro prints for it
xacro_command(blk) ==
  << << "xacro" >>, << "block.urdf.xacro" >>, << "block_name:=", blk.number >>,
     << "block_type:=", blk.type >>, << "block_color:=", blk.color >> >>

XacroOutput(blk) ==
  [block_name |-> blk.number, block_type |-> blk.type, block_color |-> blk.color]

NoOutput == [block_name |-> Str(0), block_type |-> "", block_color |-> ""]

sdf_command(urdf_file) == << << "gz" >>, << "sdf" >>, << "-p" >>, urdf_file >>

\* a line of text: whether "</model>" occurs in it, and the rest of it
Line(closing, text) == [closing |-> closing, text |-> text]

\* what gz sdf -p may print for a description: the closing tag of the model
\* on a line of its own, on the last line together with </sdf>, or no
\* closing tag at all
ConverterOutput(urdf, shape) ==
  LET open == Line(FALSE, << "<model>", urdf >>)
  IN  CASE shape = "tag_line" ->
             << open, Line(TRUE, << "</model>" >>), Line(FALSE, << "</sdf>" >>) >>
        [] shape = "tag_last" -> << open, Line(TRUE, << "</model></sdf>" >>) >>
        [] shape = "no_tag" -> << open, Line(FALSE, << "</sdf>" >>) >>
        [] shape = "one_line" -> << open >>

Shapes == { "tag_line", "tag_last", "no_tag", "one_line" }

ConverterOutputs(urdf, shapes) == { ConverterOutput(urdf, sh) : sh \in shapes }

sensor_block == Line(FALSE, << "<plugin ... PosePublisher ... </plugin>" >>)

\* next((i for i, line in enumerate(sdf_lines) if "</model>" in line), len(sdf_lines) - 1)
insert_index_end(lines) ==
  LET hits == { k \in DOMAIN lines : lines[k].closing }
  IN  IF hits # {}
        THEN (CHOOSE k \in hits : \A h \in hits : k <= h) - 1
        ELSE Len(lines)

insert_index(lines) ==
  LET hits == { k \in DOMAIN lines : lines[k].closing }
  IN  IF hits # {}
        THEN (CHOOSE k \in hits : \A h \in hits : k <= h) - 1
        ELSE Len(lines) - 1

\* sdf_lines.insert(insert_index, sensor_block)
InjectPlugin(lines) == ListInsert(lines, insert_index(lines), sensor_block)

(***************************************************************************)
(* The launch actions.                                                     *)
(***************************************************************************)
Entity(kind, name) == [kind |-> kind, name |-> name, number |-> Str(0), args |-> << >>]

\* Node(package='robot_state_publisher', namespace=f'block{number}',
\*      parameters=[{'robot_description': urdf_output}])
block_robot_state_publisher_node(blk, description) ==
  [kind |-> "node", name |-> "block_robot_state_publisher", number |-> blk.number,
   args |-> [robot_description |-> description]]

\* Node(package='ros_gz_sim', executable='create',
\*      arguments=['-name', f"block{number}", '-file', sdf_file, '-x', ...])
spawn_block_node(blk, sdf_file) ==
  [kind |-> "node", name |-> "create", number |-> blk.number,
   args |-> [file |-> sdf_file, x |-> blk.x, y |-> blk.y, z |-> blk.z,
             R |-> blk.R, P |-> blk.P, Y |-> blk.Y]]

\* the handler registered for the exit of another spawner
rviz2_other_target ==
  [kind |-> "handler", name |-> "rviz2_handler", number |-> Str(0),
   args |-> [target_action |-> "joint_controller_spawner",
             on_exit |-> << Entity("node", "rviz2") >>]]

\* RegisterEventHandler(OnProcessExit(target_action=..., on_exit=[Node(rviz2)]))
rviz2 ==
  [kind |-> "handler", name |-> "rviz2_handler", number |-> Str(0),
   args |-> [target_action |-> "joint_state_broadcaster_spawner",
             on_exit |-> << Entity("node", "rviz2") >>]]

\* the list given to LaunchDescription
LaunchDescription ==
  << Entity("argument", "ur_type"),
     Entity("environment", "set_env_vars"),
     Entity("node", "fixed_tf_broadcast"),
     Entity("node", "fixed_camera_tf_broadcast"),
     Entity("node", "desk_state_publisher_node"),
     Entity("node", "ur_robot_state_publisher_node"),
     Entity("opaque", "spawn_block"),
     Entity("node", "joint_state_broadcaster_spawner"),
     Entity("node", "joint_controller_spawner"),
     Entity("node", "gripper_controller_spawner"),
     Entity("include", "gazebo_launch"),
     Entity("node", "spawn_camera"),
     Entity("node", "spawn_ur5"),
     Entity("node", "spawn_desk"),
     Entity("node", "activate_gripper"),
     Entity("node", "gazebo_ros_bridge"),
     Entity("node", "gazebo_ros_image_bridge"),
     rviz2 >>

VARIABLES
  pc,                  \* control point
  num_blocks,          \* spawn_block: num_blocks (generate_balanced_colors: its argument)
  selected_types,      \* spawn_block: selected_types
  colors,              \* spawn_block: colors (generate_balanced_colors: its result)
  i,                   \* spawn_block: the placement loop's i
  existing_positions,  \* spawn_block: existing_positions
  blocks_config,       \* spawn_block: blocks_config
  block,               \* spawn_block: position in blocks_config of the pipeline loop
  files,               \* the files block<n>.urdf, block<n>.sdf of <package>/models
  urdf_output,         \* spawn_block: urdf_output
  sdf_output,          \* spawn_block: sdf_output, as its lines
  sdf_lines,           \* spawn_block: sdf_lines
  instances_cmds,      \* spawn_block: instances_cmds
  error,               \* the exception raised by spawn_block, if any
  plan_pos,            \* launch runtime: position in LaunchDescription of the next entity
  started,             \* launch runtime: the actions started, in order
  handlers,            \* launch runtime: the registered event handlers
  exited,              \* processes that have exited
  events               \* launch runtime: queue of ProcessExited events

vars ==
  << pc, num_blocks, selected_types, colors, i, existing_positions, blocks_config,
     block, files, urdf_output, sdf_output, sdf_lines, instances_cmds, error,
     plan_pos, started, handlers, exited, events >>

genVars == << num_blocks, selected_types, colors, i, existing_positions, blocks_config >>
pipeVars == << block, files, urdf_output, sdf_output, sdf_lines, instances_cmds, error >>
launchVars == << plan_pos, started, handlers, exited, events >>

(***************************************************************************)
(* spawn_block, lines 56-71: the draws made before the placement loop.     *)
(* TYPES are the outcomes of random.sample and COLORS those of             *)
(* generate_balanced_colors that a specification lets the random source    *)
(* take.                                                                   *)
(***************************************************************************)
Begin(TYPES, COLORS) ==
  /\ pc = "begin"
  /\ \E k \in MinBlocks..MaxBlocks :
       /\ num_blocks' = k
       /\ selected_types' \in RandomSample(block_types, k) \cap TYPES
       /\ colors' \in generate_balanced_colors(k) \cap COLORS
  /\ i' = 0
  /\ existing_positions' = << >>
  /\ blocks_config' = << >>
  /\ instances_cmds' = << >>
  /\ pc' = "place"
  /\ UNCHANGED << block, files, urdf_output, sdf_output, sdf_lines, error >>
  /\ UNCHANGED launchVars

(***************************************************************************)
(* spawn_block, lines 73-94: one pass of the while loop for item i.        *)
(* XS, YS are the jitters and RS the random() outcomes drawn from.         *)
(***************************************************************************)
\* the dict new_pos of item n (0-based), lines 79-89
NewPos(n, types, cols, offset_x, offset_y, rot) ==
  [number |-> Str(n + 1),
   type   |-> types[n + 1],
   x      |-> Str(BaseX + offset_x),
   y      |-> Str(BaseY + offset_y),
   z      |-> TableZ,
   R      |-> Str(rot[1]),
   P      |-> Str(rot[2]),
   Y      |-> Str(rot[3]),
   color  |-> cols[n + 1]]

TryPlacement(XS, YS, RS) ==
  /\ pc = "place"
  /\ i < num_blocks
  /\ \E offset_x \in XS, offset_y \in YS, r \in RS :
       LET new_pos == NewPos(i, selected_types, colors, offset_x, offset_y,
                             generate_random_rotation(r))
       IN  IF ~ check_collision(new_pos, existing_positions)
             THEN /\ existing_positions' = Append(existing_positions, new_pos)
                  /\ blocks_config' = Append(blocks_config, new_pos)
                  /\ i' = i + 1
                  /\ pc' = IF i + 1 = num_blocks THEN "pipeline" ELSE "place"
                  /\ block' = IF i + 1 = num_blocks THEN 1 ELSE block
             ELSE UNCHANGED << existing_positions, blocks_config, i, pc, block >>
  /\ UNCHANGED << num_blocks, selected_types, colors >>
  /\ UNCHANGED << files, urdf_output, sdf_output, sdf_lines, instances_cmds, error >>
  /\ UNCHANGED launchVars

(***************************************************************************)
(* spawn_block, lines 97-176: one pass of the pipeline loop.  SHAPES are   *)
(* the shapes of converter output a specification lets gz print.           *)
(***************************************************************************)
NoError == [type |-> "none", message |-> "", cmd |-> << >>]

\* raise RuntimeError(f"Error generating URDF: {e}"), e the CalledProcessError
\* of the command cmd
RuntimeErrorBare(message, cmd) == [type |-> "RuntimeError", message |-> message, cmd |-> << >>]

RuntimeError(message, cmd) == [type |-> "RuntimeError", message |-> message, cmd |-> cmd]

PipelineBlock(SHAPES) ==
  /\ pc = "pipeline"
  /\ block <= Len(blocks_config)
  /\ LET blk == blocks_config[block]
         urdf_file == FileName(blk.number, "urdf")
         sdf_file == FileName(blk.number, "sdf")
         urdf == XacroOutput(blk)
         urdf_written == [files EXCEPT ![urdf_file] = Written(urdf)]
     IN  \/ \* xacro exits nonzero
            /\ error' = RuntimeError("Error generating URDF: ", xacro_command(blk))
            /\ pc' = "raised"
            /\ UNCHANGED << block, files, urdf_output, sdf_output, sdf_lines, instances_cmds >>
         \/ \* xacro succeeds, gz exits nonzero
            /\ urdf_output' = urdf
            /\ files' = urdf_written
            /\ error' = RuntimeError("Error converting URDF to SDF: ", sdf_command(urdf_file))
            /\ pc' = "raised"
            /\ UNCHANGED << block, sdf_output, sdf_lines, instances_cmds >>
         \/ \* both succeed
            /\ urdf_output' = urdf
            /\ \E out \in ConverterOutputs(urdf_written[urdf_file].data, SHAPES) :
                 /\ sdf_output' = out
                 /\ sdf_lines' = InjectPlugin(out)
            /\ files' = [urdf_written EXCEPT ![sdf_file] = Written(sdf_lines')]
            /\ instances_cmds' =
                 instances_cmds \o << block_robot_state_publisher_node(blk, urdf),
                                      spawn_block_node(blk, sdf_file) >>
            /\ block' = block + 1
            /\ pc' = IF block = Len(blocks_config) THEN "return" ELSE "pipeline"
            /\ UNCHANGED error
  /\ UNCHANGED genVars
  /\ UNCHANGED launchVars

(***************************************************************************)
(* The launch runtime: it visits the entities of the LaunchDescription in  *)
(* order; visiting the OpaqueFunction calls spawn_block and then visits    *)
(* the actions it returns; a ProcessExited event runs the on_exit actions  *)
(* of the handlers registered for the process.                             *)
(***************************************************************************)
\* return instances_cmds
Return ==
  /\ pc = "return"
  /\ started' = started \o instances_cmds
  /\ plan_pos' = plan_pos + 1
  /\ pc' = "visit"
  /\ UNCHANGED << handlers, exited, events >>
  /\ UNCHANGED genVars
  /\ UNCHANGED pipeVars

VisitEntity ==
  /\ pc = "visit"
  /\ plan_pos <= Len(LaunchDescription)
  /\ LET e == LaunchDescription[plan_pos]
     IN  CASE e.kind = "opaque" ->
                /\ pc' = "begin"
                /\ UNCHANGED << plan_pos, started, handlers >>
           [] e.kind = "handler" ->
                /\ handlers' = Append(handlers, e)
                /\ plan_pos' = plan_pos + 1
                /\ UNCHANGED << pc, started >>
           [] OTHER ->
                /\ started' = Append(started, e)
                /\ plan_pos' = plan_pos + 1
                /\ UNCHANGED << pc, handlers >>
  /\ UNCHANGED << exited, events >>
  /\ UNCHANGED genVars
  /\ UNCHANGED pipeVars

\* the controller spawners are the processes that exit by themselves
ExitingProcesses ==
  { "joint_state_broadcaster_spawner", "joint_controller_spawner" }

IsStarted(name) == \E k \in DOMAIN started : started[k].name = name

ProcessExit ==
  /\ \E p \in ExitingProcesses :
       /\ IsStarted(p)
       /\ p \notin exited
       /\ exited' = exited \cup {p}
       /\ events' = Append(events, p)
  /\ UNCHANGED << pc, plan_pos, started, handlers >>
  /\ UNCHANGED genVars
  /\ UNCHANGED pipeVars

RECURSIVE OnExitActions(_, _)
OnExitActions(hs, p) ==
  IF hs = << >> THEN << >>
  ELSE (IF Head(hs).args.target_action = p THEN Head(hs).args.on_exit ELSE << >>)
         \o OnExitActions(Tail(hs), p)

HandleEvent ==
  /\ pc = "visit"
  /\ events # << >>
  /\ started' = started \o OnExitActions(handlers, Head(events))
  /\ events' = Tail(events)
  /\ UNCHANGED << pc, plan_pos, handlers, exited >>
  /\ UNCHANGED genVars
  /\ UNCHANGED pipeVars

(***************************************************************************)
(* The random draws each specification takes.                              *)
(***************************************************************************)
\* six candidates, pairwise at least 0.20 apart: a candidate is rejected
\* only when it repeats an accepted one
SparseX == { -JitterX, JitterX }
SparseY == { -JitterY, 0, JitterY }

\* 21 candidates over the whole jitter box
GridX == { -JitterX, 0, JitterX }
GridY == { -JitterY, -16, -8, 0, 8, 16, JitterY }

AnyRandom == 0 .. (YawRes - 1)
ZeroRandom == { 0 }

\* the draws of random.sample and of generate_balanced_colors
AnyTypes == UNION { RandomSample(block_types, k) : k \in MinBlocks..MaxBlocks }
FirstTypes == { SubSeq(block_types, 1, k) : k \in MinBlocks..MaxBlocks }
OneColors == { CHOOSE c \in generate_balanced_colors(k) : TRUE : k \in MinBlocks..MaxBlocks }

(***************************************************************************)
(* Spec: the whole launch.                                                 *)
(***************************************************************************)
NoFiles == [f \in FileNames |-> Absent]
StaleFiles == [f \in FileNames |-> Stale]

InitLocals ==
  /\ num_blocks = 0
  /\ selected_types = << >>
  /\ colors = << >>
  /\ i = 0
  /\ existing_positions = << >>
  /\ blocks_config = << >>
  /\ block = 0
  /\ urdf_output = NoOutput
  /\ sdf_output = << >>
  /\ sdf_lines = << >>
  /\ instances_cmds = << >>
  /\ error = NoError

InitRuntime ==
  /\ plan_pos = 1
  /\ started = << >>
  /\ handlers = << >>
  /\ exited = {}
  /\ events = << >>

Init ==
  /\ pc = "visit"
  /\ files \in { NoFiles, StaleFiles }
  /\ InitLocals
  /\ InitRuntime

Next ==
  \/ VisitEntity
  \/ Begin(FirstTypes, OneColors)
  \/ TryPlacement(SparseX, SparseY, ZeroRandom)
  \/ PipelineBlock({"tag_line"})
  \/ Return
  \/ ProcessExit
  \/ HandleEvent

Spec == Init /\ [][Next]_vars

(***************************************************************************)
(* SpecPlace: spawn_block up to the end of the placement loop, with the    *)
(* candidates of the 21-point grid.  It starts where the launch runtime    *)
(* calls spawn_block.                                                      *)
(***************************************************************************)
OpaquePos == CHOOSE k \in DOMAIN LaunchDescription : LaunchDescription[k].kind = "opaque"

InitCall ==
  /\ pc = "begin"
  /\ files = NoFiles
  /\ InitLocals
  /\ plan_pos = OpaquePos
  /\ started = SubSeq(LaunchDescription, 1, OpaquePos - 1)
  /\ handlers = << >>
  /\ exited = {}
  /\ events = << >>

NextPlace ==
  \/ Begin(FirstTypes, OneColors)
  \/ TryPlacement(GridX, GridY, ZeroRandom)

SpecPlace == InitCall /\ [][NextPlace]_vars

\* squared planar distance of two placements
Dist2(p, q) ==
  (Float(p.x) - Float(q.x)) * (Float(p.x) - Float(q.x))
    + (Float(p.y) - Float(q.y)) * (Float(p.y) - Float(q.y))

\* C1: after every pass of the placement loop any two distinct accepted
\* placements are at planar distance >= 0.15, and blocks_config holds exactly
\* the accepted placements of existing_positions.
C1_PairwiseSeparated ==
  /\ blocks_config = existing_positions
  /\ \A a, b \in DOMAIN blocks_config :
       a # b => Dist2(blocks_config[a], blocks_config[b]) >= MinDistance * MinDistance

\* five placements accepted, two of them nearer than 0.20 and one pair that
\* is far from the last accepted one
C1_Witness ==
  /\ pc = "pipeline"
  /\ Len(blocks_config) = MaxBlocks
  /\ \E a, b \in DOMAIN blocks_config :
       /\ a + 1 < b
       /\ Dist2(blocks_config[a], blocks_config[b]) < 20 * 20

\* the candidates of the jitter box on the 0.01 m lattice that collide with no
\* accepted placement
FreeCandidates ==
  { c \in (-JitterX..JitterX) \X (-JitterY..JitterY) :
      ~ check_collision([x |-> Str(BaseX + c[1]), y |-> Str(BaseY + c[2])],
                        existing_positions) }

\* C10 as claimed: whenever fewer than K placements are accepted, some
\* candidate of the jitter box is at distance >= 0.15 from all of them.
C10_AlwaysRoom ==
  (pc = "place" /\ Len(existing_positions) < num_blocks) => FreeCandidates # {}

\* C10 as amended: whenever at most two placements are accepted, some
\* candidate of the jitter box is at distance >= 0.15 from all of them.
C10_RoomForThree ==
  (pc = "place" /\ Len(existing_positions) <= 2) => FreeCandidates # {}

\* two placements accepted that leave fewer than 100 of the 1071 lattice
\* candidates admissible
C10_Witness ==
  /\ pc = "place"
  /\ Len(existing_positions) = 2
  /\ Cardinality(FreeCandidates) < 100

(***************************************************************************)
(* SpecTypes: the same, over every set of 4 or 5 catalog types (each drawn *)
(* in catalog order) and the six sparse candidates.                        *)
(***************************************************************************)
PositionOf(t) == CHOOSE k \in DOMAIN block_types : block_types[k] = t

AscendingTypes ==
  { s \in AnyTypes : \A a, b \in DOMAIN s : a < b => PositionOf(s[a]) <= PositionOf(s[b]) }

NextTypes ==
  \/ Begin(AscendingTypes, OneColors)
  \/ TryPlacement(SparseX, SparseY, ZeroRandom)

SpecTypes == InitCall /\ [][NextTypes]_vars

\* C2: K is 4 or 5, the K selected types are pairwise distinct members of
\* the 9-entry catalog, and every accepted placement n has type
\* selected_types[n], whatever was rejected before it.
C2_DistinctTypes ==
  pc # "begin" =>
    /\ num_blocks \in {4, 5}
    /\ Len(block_types) = 9
    /\ Len(selected_types) = num_blocks
    /\ \A a \in DOMAIN selected_types : selected_types[a] \in Range(block_types)
    /\ \A a, b \in DOMAIN selected_types : selected_types[a] = selected_types[b] => a = b
    /\ Len(blocks_config) <= num_blocks
    /\ \A n \in DOMAIN blocks_config : blocks_config[n].type = selected_types[n]
    /\ \A a, b \in DOMAIN blocks_config :
         blocks_config[a].type = blocks_config[b].type => a = b

C2_Witness ==
  /\ pc = "pipeline"
  /\ Len(blocks_config) = 5
  /\ blocks_config[1].type = block_types[2]
  /\ blocks_config[5].type = block_types[9]

(***************************************************************************)
(* SpecColors: generate_balanced_colors applied to every N in 0..MaxN.     *)
(***************************************************************************)
InitColors ==
  /\ pc = "colors"
  /\ files = NoFiles
  /\ num_blocks \in 0..MaxN
  /\ selected_types = << >>
  /\ colors = << >>
  /\ i = 0
  /\ existing_positions = << >>
  /\ blocks_config = << >>
  /\ block = 0
  /\ urdf_output = NoOutput
  /\ sdf_output = << >>
  /\ sdf_lines = << >>
  /\ instances_cmds = << >>
  /\ error = NoError
  /\ InitRuntime

\* colors = generate_balanced_colors(num_blocks)
BalancedColors ==
  /\ pc = "colors"
  /\ colors' \in generate_balanced_colors(num_blocks)
  /\ pc' = "colored"
  /\ UNCHANGED << num_blocks, selected_types, i, existing_positions, blocks_config >>
  /\ UNCHANGED pipeVars
  /\ UNCHANGED launchVars

SpecColors == InitColors /\ [][BalancedColors]_vars

\* C3: generate_balanced_colors(N) has exactly N labels of the palette, every
\* palette colour floor(N/4) or floor(N/4)+1 times, and exactly N mod 4
\* colours floor(N/4)+1 times.
C3_Balanced ==
  pc = "colored" =>
    LET N == num_blocks
        q == N \div 4
    IN  /\ Len(palette) = 4
        /\ Len(colors) = N
        /\ \A j \in DOMAIN colors : colors[j] \in Range(palette)
        /\ \A c \in Range(palette) : Count(colors, c) \in {q, q + 1}
        /\ Cardinality({ c \in Range(palette) : Count(colors, c) = q + 1 }) = N % 4

\* N = 5: one colour twice, the three others once
C3_Witness ==
  /\ pc = "colored"
  /\ num_blocks = 5
  /\ Count(colors, palette[3]) = 2
  /\ \A c \in Range(palette) \ {palette[3]} : Count(colors, c) = 1

(***************************************************************************)
(* SpecInject: the injection step, lines 128-142, applied to every         *)
(* converter output of up to MaxLines lines.                               *)
(***************************************************************************)
SomeLines ==
  { Line(TRUE, << "</model>" >>), Line(TRUE, << "</model></sdf>" >>),
    Line(FALSE, << "<link/>" >>), Line(FALSE, << "</sdf>" >>) }

LineSeqs == UNION { [1..n -> SomeLines] : n \in 0..MaxLines }

InitInject ==
  /\ pc = "inject"
  /\ files = NoFiles
  /\ num_blocks = 0
  /\ selected_types = << >>
  /\ colors = << >>
  /\ i = 0
  /\ existing_positions = << >>
  /\ blocks_config = << >>
  /\ block = 0
  /\ urdf_output = NoOutput
  /\ sdf_output \in LineSeqs
  /\ sdf_lines = sdf_output
  /\ instances_cmds = << >>
  /\ error = NoError
  /\ InitRuntime

\* sdf_lines.insert(insert_index, sensor_block)
Inject ==
  /\ pc = "inject"
  /\ sdf_lines' = InjectPlugin(sdf_lines)
  /\ pc' = "injected"
  /\ UNCHANGED genVars
  /\ UNCHANGED << block, files, urdf_output, sdf_output, instances_cmds, error >>
  /\ UNCHANGED launchVars

SpecInject == InitInject /\ [][Inject]_vars

HasClosingTag(lines) == \E k \in DOMAIN lines : lines[k].closing

FirstClosingTag(lines) ==
  CHOOSE k \in DOMAIN lines : lines[k].closing /\ \A h \in 1..(k - 1) : ~ lines[h].closing

\* C6: the injected list is the converter's lines, in their order, with the
\* fragment as one extra element: right before the first line containing
\* "</model>" if there is one, else right before the last line; an empty
\* output becomes the fragment alone; the step is enabled for every output.
C6_Injection ==
  /\ pc = "inject" => ENABLED Inject
  /\ pc = "injected" =>
       LET L == sdf_output
           R == sdf_lines
           at == IF HasClosingTag(L) THEN FirstClosingTag(L)
                 ELSE IF L = << >> THEN 1 ELSE Len(L)
       IN  /\ Len(R) = Len(L) + 1
           /\ R[at] = sensor_block
           /\ Without(R, at) = L
           /\ L # << >> => R[at + 1] = L[at]

\* no closing tag, and more than one line
C6_Witness ==
  /\ pc = "injected"
  /\ ~ HasClosingTag(sdf_output)
  /\ Len(sdf_output) = MaxLines
  /\ sdf_lines[Len(sdf_lines)] = sdf_output[Len(sdf_output)]
  /\ sdf_lines[Len(sdf_lines) - 1] = sensor_block

(***************************************************************************)
(* SpecGen: spawn_block up to the end of the placement loop, with every    *)
(* yaw draw and the six sparse candidates.                                 *)
(***************************************************************************)
NextGen ==
  \/ Begin(FirstTypes, OneColors)
  \/ TryPlacement(SparseX, SparseY, AnyRandom)

SpecGen == InitCall /\ [][NextGen]_vars

PlacementsWellFormed ==
  /\ Len(blocks_config) <= num_blocks
  /\ pc = "pipeline" => Len(blocks_config) = num_blocks
  /\ \A n \in DOMAIN blocks_config :
       /\ blocks_config[n].number = Str(n)
       /\ blocks_config[n].z = "0.88"
       /\ blocks_config[n].R = Str(0)
       /\ blocks_config[n].P = Str(0)
       /\ 0 <= Float(blocks_config[n].Y)
       /\ Float(blocks_config[n].Y) < TwoPi

\* C7 as claimed: K placements with ordinals "1".."K" in order, z "0.88",
\* roll 0, pitch 0, yaw in [0, 2*pi), and the yaw values pairwise distinct.
C7_DistinctYaw ==
  /\ PlacementsWellFormed
  /\ \A a, b \in DOMAIN blocks_config :
       blocks_config[a].Y = blocks_config[b].Y => a = b

\* C7 as amended: K placements with ordinals "1".."K" in order, z "0.88",
\* roll 0, pitch 0 and yaw in [0, 2*pi); two placements may have the same yaw.
C7_Placements == PlacementsWellFormed

C7_Witness ==
  /\ pc = "pipeline"
  /\ Len(blocks_config) = 4
  /\ blocks_config[1].Y = blocks_config[2].Y
  /\ Float(blocks_config[3].Y) = 0
  /\ Float(blocks_config[4].Y) = YawRes - 1

(***************************************************************************)
(* SpecPipe: the pipeline loop and the return of spawn_block, from the end *)
(* of the placement loop, with every shape of converter output.            *)
(***************************************************************************)
PlacedOffsets ==
  << << -JitterX, -JitterY >>, << JitterX, -JitterY >>, << -JitterX, 0 >>,
     << JitterX, 0 >>, << -JitterX, JitterY >> >>

Placed(k, types, cols) ==
  [n \in 1..k |-> NewPos(n - 1, types, cols, PlacedOffsets[n][1], PlacedOffsets[n][2],
                         generate_random_rotation(0))]

InitPipe ==
  /\ pc = "pipeline"
  /\ files \in { NoFiles, StaleFiles }
  /\ num_blocks \in MinBlocks..MaxBlocks
  /\ selected_types = SubSeq(block_types, 1, num_blocks)
  /\ colors = (CHOOSE c \in generate_balanced_colors(num_blocks) : TRUE)
  /\ i = num_blocks
  /\ blocks_config = Placed(num_blocks, selected_types, colors)
  /\ existing_positions = blocks_config
  /\ block = 1
  /\ urdf_output = NoOutput
  /\ sdf_output = << >>
  /\ sdf_lines = << >>
  /\ instances_cmds = << >>
  /\ error = NoError
  /\ plan_pos = OpaquePos
  /\ started = SubSeq(LaunchDescription, 1, OpaquePos - 1)
  /\ handlers = << >>
  /\ exited = {}
  /\ events = << >>

NextPipe ==
  \/ PipelineBlock(Shapes)
  \/ Return

SpecPipe == InitPipe /\ [][NextPipe]_vars

WrittenThisPass(f) == files[f].state = "written"

IsBlockAction(a) == a.name \in {"create", "block_robot_state_publisher"}

\* C5: when xacro or gz exits nonzero for block j, spawn_block raises a
\* RuntimeError carrying the failed command, block j's .sdf is not written
\* in this pass, no later block is processed, and no action of any block
\* reaches the launch runtime.
C5_FailureAborts ==
  pc = "raised" =>
    LET blk == blocks_config[block]
    IN  /\ error.type = "RuntimeError"
        /\ \/ error.cmd = xacro_command(blk)
           \/ error.cmd = sdf_command(FileName(blk.number, "urdf"))
        /\ ~ WrittenThisPass(FileName(blk.number, "sdf"))
        /\ \A n \in (block + 1)..Len(blocks_config) :
             /\ ~ WrittenThisPass(FileName(Str(n), "urdf"))
             /\ ~ WrittenThisPass(FileName(Str(n), "sdf"))
        /\ Len(instances_cmds) = 2 * (block - 1)
        /\ \A k \in DOMAIN started : ~ IsBlockAction(started[k])
        /\ plan_pos = OpaquePos
        /\ ~ ENABLED NextPipe

\* gz fails for block 3 after two blocks went through
C5_Witness ==
  /\ pc = "raised"
  /\ block = 3
  /\ error.message = "Error converting URDF to SDF: "
  /\ WrittenThisPass(FileName(Str(3), "urdf"))
  /\ files[FileName(Str(3), "sdf")] = Stale
  /\ Len(instances_cmds) = 4

\* the descriptions the pipeline may leave in the .sdf file of a block
InjectedDescriptions(blk) ==
  { InjectPlugin(out) : out \in ConverterOutputs(XacroOutput(blk), Shapes) }

OwnFiles(a) ==
  LET n == Float(a.number)
      blk == blocks_config[n]
  IN  /\ a.args.file = FileName(Str(n), "sdf")
      /\ files[FileName(Str(n), "urdf")] = Written(XacroOutput(blk))
      /\ WrittenThisPass(a.args.file)
      /\ files[a.args.file].data \in InjectedDescriptions(blk)

\* C8: every spawn action that exists, in instances_cmds or handed to the
\* runtime, names the .sdf file of its own block, and that file and the
\* block's .urdf were written in this pass and hold that block's own
\* (injected) description.
C8_OwnFiles ==
  /\ \A k \in DOMAIN instances_cmds :
       instances_cmds[k].name = "create" => OwnFiles(instances_cmds[k])
  /\ \A k \in DOMAIN started :
       started[k].name = "create" => OwnFiles(started[k])

C8_Witness ==
  /\ pc = "visit"
  /\ Len(instances_cmds) = 2 * MaxBlocks
  /\ started[Len(started)].name = "create"
  /\ started[Len(started)].number = Str(MaxBlocks)

(***************************************************************************)
(* Claims about the whole launch, under Spec.                              *)
(***************************************************************************)
\* C4: no block 'create' node is started before gazebo_launch.
C4_SimulatorFirst ==
  \A k \in DOMAIN started :
    started[k].name = "create" =>
      \E j \in 1..(k - 1) : started[j].name = "gazebo_launch"

\* C9: rviz2 is no member of the LaunchDescription list, and it is started
\* only once joint_state_broadcaster_spawner has exited.
C9_RvizAfterExit ==
  /\ \A k \in DOMAIN LaunchDescription : LaunchDescription[k].name # "rviz2"
  /\ IsStarted("rviz2") => "joint_state_broadcaster_spawner" \in exited

C9_Witness ==
  /\ IsStarted("rviz2")
  /\ "joint_controller_spawner" \notin exited

=============================================================================
